---- MODULE Spec2Model ----
(***************************************************************************)
(* 4-digit TOTP validation server (otp-backend/main.go): the /get-otp,     *)
(* /validate and /health handlers, the code derivation and the             *)
(* skew-tolerant validator, driven by a wall clock.                        *)
(*                                                                         *)
(* Strings that the code inspects character by character (the submitted    *)
(* OTP, the derived code, the Base32 secret) are sequences of one-character *)
(* strings; messages that are only compared as a whole are TLA+ strings.   *)
(***************************************************************************)
EXTENDS Integers, Sequences, FiniteSets, TLC

(* ------------------------------ bounds --------------------------------- *)

\* number of consecutive 30-second windows the clock ranges over
MaxWindows == 3

\* seconds inside a window at which the clock is observed
\* (first second, last second)
Offsets == {0, 29}

\* first counter window of a run: the Unix epoch (where offset -1 falls
\* below zero) or window 916; the codes of windows 916 and 917 are both
\* "0513" for the configured secret
StartCounters == {0, 916}

(* --------------------------- configuration ----------------------------- *)

base32Alphabet == <<"A","B","C","D","E","F","G","H","I","J","K","L","M",
                    "N","O","P","Q","R","S","T","U","V","W","X","Y","Z",
                    "2","3","4","5","6","7">>

BASE32_SECRET == <<"J","B","S","W","Y","3","D","P","E","H","P","K","3","P","X","P">>

TIME_STEP == 30

OTP_DIGITS == 4

\* a tolerance one window wider
SKEW_TOLERANCE_Two == 1 + 1

SKEW_TOLERANCE == 1

StatusOK == 200

StatusBadRequest == 400

StatusMethodNotAllowed == 405

StatusInternalServerError == 500

(* ------------------------------ helpers -------------------------------- *)

RECURSIVE Pow2(_)
Pow2(n) == IF n = 0 THEN 1 ELSE 2 * Pow2(n - 1)

Digits == <<"0","1","2","3","4","5","6","7","8","9">>

DigitSet == {Digits[i] : i \in 1..10}

LowerCase == <<"a","b","c","d","e","f","g","h","i","j","k","l","m",
               "n","o","p","q","r","s","t","u","v","w","x","y","z">>

WhiteSpace == {" ", "\t", "\n", "\r"}

\* strings.ToUpper, one character
ToUpperChar(ch) ==
    IF \E i \in 1..26 : LowerCase[i] = ch
    THEN base32Alphabet[CHOOSE i \in 1..26 : LowerCase[i] = ch]
    ELSE ch

ToUpper(s) == [i \in 1..Len(s) |-> ToUpperChar(s[i])]

\* strings.TrimSpace: drop leading and trailing white space
RECURSIVE TrimLeft(_)
TrimLeft(s) ==
    IF s # <<>> /\ Head(s) \in WhiteSpace THEN TrimLeft(Tail(s)) ELSE s

RECURSIVE TrimRight(_)
TrimRight(s) ==
    IF s # <<>> /\ s[Len(s)] \in WhiteSpace
    THEN TrimRight(SubSeq(s, 1, Len(s) - 1)) ELSE s

TrimSpace(s) == TrimRight(TrimLeft(s))

(* ---------------------------- decodeBase32 ----------------------------- *)

\* variant in which an absent character counts as value 0
AlphabetValueZero(ch) ==
    IF \E i \in 1..32 : base32Alphabet[i] = ch
    THEN (CHOOSE i \in 1..32 : base32Alphabet[i] = ch) - 1
    ELSE 0

\* index of the character in base32Alphabet, -1 when absent
AlphabetValue(ch) ==
    IF \E i \in 1..32 : base32Alphabet[i] = ch
    THEN (CHOOSE i \in 1..32 : base32Alphabet[i] = ch) - 1
    ELSE -1

\* the uint32 accumulator is the pair <<high 16 bits, low 16 bits>>
\* buffer = (buffer << 5) | value, truncated to 32 bits
ShiftIn(buffer, value) ==
    LET lo == buffer[2] * 32 + value
        hi == buffer[1] * 32 + (lo \div 65536)
    IN  <<hi % 65536, lo % 65536>>

\* variant that takes the low byte without shifting
TopByteNoShift(buffer, shift) == buffer[2] % 256

\* byte((buffer >> shift) & 0xFF), for shift < 8
TopByte(buffer, shift) ==
    (((buffer[1] % Pow2(shift)) * Pow2(16 - shift))
       + (buffer[2] \div Pow2(shift))) % 256

\* one iteration of the loop over the characters
DecodeStep(st, ch) ==
    LET value == AlphabetValue(ch) IN
    IF value = -1 THEN st
    ELSE LET buffer == ShiftIn(st.buffer, value)
             bits   == st.bitsLeft + 5
         IN  IF bits >= 8
             THEN [result   |-> Append(st.result, TopByte(buffer, bits - 8)),
                   buffer   |-> buffer,
                   bitsLeft |-> bits - 8]
             ELSE [result |-> st.result, buffer |-> buffer, bitsLeft |-> bits]

RECURSIVE DecodeLoop(_, _)
DecodeLoop(st, s) ==
    IF s = <<>> THEN st ELSE DecodeLoop(DecodeStep(st, Head(s)), Tail(s))

\* returns the pair (bytes, err); err is always nil
decodeBase32(encoded) ==
    [bytes |-> DecodeLoop([result |-> <<>>, buffer |-> <<0, 0>>, bitsLeft |-> 0],
                          ToUpper(TrimSpace(encoded))).result,
     err   |-> FALSE]

(* ------------------- device decoders (ESP8266 firmware) ---------------- *)

\* the two firmware sources: the sketch and the unnamed second version
Firmwares == {"sketch", "part000"}

\* the characters that occur in the strings of the model
Chars ==
    {base32Alphabet[i] : i \in 1..32} \cup {LowerCase[i] : i \in 1..26}
        \cup WhiteSpace \cup {"0", "1", "8", "9", "-", "+", "="}

\* for (j = 0; j < 32; j++) if (base32Alphabet[j] == c) v = j;   (no break:
\* the last match stays)
SketchValueOf ==
    [c \in Chars |->
        LET hits == {j \in 0..31 : base32Alphabet[j + 1] = c} IN
        IF hits = {} THEN -1 ELSE CHOOSE j \in hits : \A k \in hits : k <= j]

SketchValue(c) == SketchValueOf[c]

\* the same search with a break at the first match
ManualValueOf ==
    [c \in Chars |->
        LET hits == {j \in 0..31 : base32Alphabet[j + 1] = c} IN
        IF hits = {} THEN -1 ELSE CHOOSE j \in hits : \A k \in hits : j <= k]

ManualValue(c) == ManualValueOf[c]

\* int buffer = (buffer << 5) | v on a 32-bit int; the bit pattern is kept
\* as <<high 16 bits, low 16 bits>> and bits shifted past bit 31 are lost
\* (the wrap-around GCC gives signed left shifts)
IntShiftIn(buffer, v) ==
    LET lo == buffer[2] * 32 + v
        hi == buffer[1] * 32 + (lo \div 65536)
    IN  <<hi % 65536, lo % 65536>>

\* (buffer >> shift) & 0xFF for shift < 8: bits shift..shift+7, which the
\* sign extension of the arithmetic shift does not reach
IntTopByte(buffer, shift) ==
    (((buffer[1] % Pow2(shift)) * Pow2(16 - shift))
       + (buffer[2] \div Pow2(shift))) % 256

\* one iteration of the loop over the characters of the secret; `result`
\* lists the bytes stored through result[resultIndex++], in order
DeviceDecodeStep(fw, st, c) ==
    LET v == IF fw = "sketch" THEN SketchValue(c) ELSE ManualValue(c) IN
    IF v < 0 THEN st
    ELSE LET buffer == IntShiftIn(st.buffer, v)
             bits   == st.bitsLeft + 5
         IN  IF bits >= 8
             THEN [result   |-> Append(st.result, IntTopByte(buffer, bits - 8)),
                   buffer   |-> buffer,
                   bitsLeft |-> bits - 8]
             ELSE [result |-> st.result, buffer |-> buffer, bitsLeft |-> bits]

RECURSIVE DeviceDecodeLoop(_, _, _)
DeviceDecodeLoop(fw, st, s) ==
    IF s = <<>> THEN st
    ELSE DeviceDecodeLoop(fw, DeviceDecodeStep(fw, st, Head(s)), Tail(s))

DecodeStart == [result |-> <<>>, buffer |-> <<0, 0>>, bitsLeft |-> 0]

\* decodeBase32Secret of the sketch
decodeBase32Secret(encoded) == DeviceDecodeLoop("sketch", DecodeStart, encoded)

\* manualBase32Decode of the second firmware; the return value is
\* Len(result)
manualBase32Decode(encoded) == DeviceDecodeLoop("part000", DecodeStart, encoded)

\* the server's loop state at the end of decodeBase32
ServerDecodeState(encoded) ==
    DecodeLoop(DecodeStart, ToUpper(TrimSpace(encoded)))

\* what the three decoders make of one encoded string
DecodeAll(encoded) ==
    [server  |-> decodeBase32(encoded),
     state   |-> ServerDecodeState(encoded),
     sketch  |-> decodeBase32Secret(encoded),
     part000 |-> manualBase32Decode(encoded)]

(* ------------------------- generate4DigitTOTP -------------------------- *)

\* binary.BigEndian.PutUint64 for counters below 2^31
PutUint64(n) ==
    <<0, 0, 0, 0,
      (n \div 16777216) % 256, (n \div 65536) % 256, (n \div 256) % 256, n % 256>>

\* HMAC-SHA1 (crypto/hmac, crypto/sha1) under the key decoded from
\* BASE32_SECRET, tabulated for the messages the model derives codes for
HmacSha1Key == <<72, 101, 108, 108, 111, 33, 222, 173, 190, 239>>

HmacSha1Table == {
    [msg |-> <<0, 0, 0, 0, 3, 144, 120, 148>>,
     sum |-> <<19, 223, 27, 26, 215, 16, 125, 243, 34, 108, 114, 100, 154, 91, 215, 168, 96, 188, 228, 205>>],
    [msg |-> <<0, 0, 0, 0, 0, 0, 0, 0>>,
     sum |-> <<44, 216, 233, 4, 227, 149, 167, 65, 72, 119, 170, 47, 130, 97, 225, 36, 53, 114, 196, 53>>],
    [msg |-> <<0, 0, 0, 0, 0, 0, 0, 1>>,
     sum |-> <<133, 63, 121, 182, 101, 10, 158, 60, 90, 129, 241, 121, 162, 9, 37, 59, 203, 190, 116, 2>>],
    [msg |-> <<0, 0, 0, 0, 0, 0, 0, 2>>,
     sum |-> <<231, 126, 129, 100, 82, 252, 248, 124, 125, 138, 175, 205, 115, 9, 196, 0, 6, 47, 58, 135>>],
    [msg |-> <<0, 0, 0, 0, 0, 0, 0, 3>>,
     sum |-> <<106, 185, 57, 8, 220, 219, 74, 63, 180, 149, 211, 138, 32, 79, 65, 9, 135, 203, 20, 94>>],
    [msg |-> <<0, 0, 0, 0, 0, 0, 0, 4>>,
     sum |-> <<149, 122, 154, 216, 26, 180, 19, 39, 9, 1, 17, 242, 241, 154, 164, 193, 251, 38, 63, 204>>],
    [msg |-> <<0, 0, 0, 0, 0, 0, 0, 5>>,
     sum |-> <<129, 55, 244, 122, 1, 139, 27, 64, 154, 128, 188, 65, 140, 3, 66, 12, 132, 133, 92, 65>>],
    [msg |-> <<0, 0, 0, 0, 0, 0, 0, 6>>,
     sum |-> <<88, 191, 207, 86, 95, 81, 151, 130, 239, 209, 242, 172, 21, 166, 158, 81, 222, 156, 148, 85>>],
    [msg |-> <<0, 0, 0, 0, 0, 0, 0, 7>>,
     sum |-> <<117, 69, 158, 7, 212, 22, 82, 224, 11, 89, 153, 229, 45, 227, 199, 8, 102, 193, 120, 218>>],
    [msg |-> <<0, 0, 0, 0, 0, 0, 0, 8>>,
     sum |-> <<97, 175, 161, 132, 29, 50, 138, 79, 38, 228, 129, 63, 227, 134, 83, 239, 155, 167, 185, 26>>],
    [msg |-> <<0, 0, 0, 0, 0, 0, 3, 144>>,
     sum |-> <<251, 78, 174, 156, 215, 41, 85, 91, 151, 248, 216, 18, 198, 6, 227, 34, 102, 36, 207, 163>>],
    [msg |-> <<0, 0, 0, 0, 0, 0, 3, 145>>,
     sum |-> <<228, 198, 77, 121, 59, 150, 203, 78, 30, 35, 111, 139, 27, 24, 82, 185, 223, 243, 200, 141>>],
    [msg |-> <<0, 0, 0, 0, 0, 0, 3, 146>>,
     sum |-> <<181, 131, 119, 247, 42, 41, 228, 239, 181, 232, 99, 243, 87, 59, 122, 97, 61, 172, 125, 53>>],
    [msg |-> <<0, 0, 0, 0, 0, 0, 3, 147>>,
     sum |-> <<224, 53, 64, 235, 80, 18, 205, 121, 125, 41, 27, 164, 53, 14, 225, 9, 128, 13, 233, 18>>],
    [msg |-> <<0, 0, 0, 0, 0, 0, 3, 148>>,
     sum |-> <<188, 110, 85, 111, 227, 11, 49, 25, 28, 209, 5, 216, 224, 155, 97, 124, 180, 186, 235, 115>>],
    [msg |-> <<0, 0, 0, 0, 0, 0, 3, 149>>,
     sum |-> <<70, 74, 42, 150, 222, 209, 14, 58, 50, 189, 49, 165, 184, 230, 155, 2, 158, 55, 117, 66>>],
    [msg |-> <<0, 0, 0, 0, 0, 0, 3, 150>>,
     sum |-> <<127, 194, 41, 204, 22, 117, 74, 3, 240, 168, 235, 152, 51, 29, 137, 41, 37, 85, 215, 157>>],
    [msg |-> <<0, 0, 0, 0, 0, 0, 3, 151>>,
     sum |-> <<199, 109, 122, 183, 178, 34, 238, 218, 36, 239, 43, 249, 219, 121, 215, 189, 127, 150, 166, 97>>],
    [msg |-> <<0, 0, 0, 0, 0, 0, 3, 152>>,
     sum |-> <<164, 53, 162, 196, 88, 221, 133, 142, 174, 249, 39, 113, 103, 233, 128, 55, 38, 90, 64, 115>>],
    [msg |-> <<0, 0, 0, 0, 0, 0, 3, 153>>,
     sum |-> <<24, 51, 145, 61, 195, 134, 59, 197, 94, 118, 187, 206, 12, 65, 235, 239, 206, 211, 42, 12>>],
    [msg |-> <<0, 0, 0, 0, 0, 0, 3, 154>>,
     sum |-> <<170, 187, 125, 135, 163, 199, 221, 142, 220, 18, 193, 156, 33, 185, 170, 98, 206, 33, 82, 216>>],
    [msg |-> <<0, 0, 0, 0, 0, 0, 3, 155>>,
     sum |-> <<100, 217, 252, 140, 244, 188, 114, 155, 104, 26, 127, 234, 119, 199, 190, 118, 127, 121, 120, 177>>]
  }

\* the 20 ASCII bytes "12345678901234567890", the key of the RFC 4226
\* test vectors
RfcKey == <<49, 50, 51, 52, 53, 54, 55, 56, 57, 48,
            49, 50, 51, 52, 53, 54, 55, 56, 57, 48>>

\* HMAC-SHA1 under RfcKey for the counters 0..5 (RFC 4226, Appendix D)
HmacSha1TableRfc == {
    [msg |-> <<0, 0, 0, 0, 0, 0, 0, 0>>,
     sum |-> <<204, 147, 207, 24, 80, 141, 148, 147, 76, 100, 182, 93, 139, 167, 102, 127, 183, 205, 228, 176>>],
    [msg |-> <<0, 0, 0, 0, 0, 0, 0, 1>>,
     sum |-> <<117, 164, 138, 25, 212, 203, 225, 0, 100, 78, 138, 193, 57, 126, 234, 116, 122, 45, 51, 171>>],
    [msg |-> <<0, 0, 0, 0, 0, 0, 0, 2>>,
     sum |-> <<11, 172, 183, 250, 8, 47, 239, 48, 120, 34, 17, 147, 139, 193, 197, 231, 4, 22, 255, 68>>],
    [msg |-> <<0, 0, 0, 0, 0, 0, 0, 3>>,
     sum |-> <<102, 194, 130, 39, 208, 58, 45, 85, 41, 38, 47, 240, 22, 161, 230, 239, 118, 85, 126, 206>>],
    [msg |-> <<0, 0, 0, 0, 0, 0, 0, 4>>,
     sum |-> <<169, 4, 201, 0, 166, 75, 53, 144, 152, 116, 179, 62, 97, 197, 147, 138, 142, 21, 237, 28>>],
    [msg |-> <<0, 0, 0, 0, 0, 0, 0, 5>>,
     sum |-> <<163, 126, 120, 61, 123, 114, 51, 192, 131, 212, 246, 41, 38, 199, 162, 95, 35, 141, 3, 22>>]
  }

\* mac := hmac.New(sha1.New, secret); mac.Write(timeBytes); mac.Sum(nil)
HmacSha1(secret, timeBytes) ==
    IF secret = RfcKey
    THEN (CHOOSE r \in HmacSha1TableRfc : r.msg = timeBytes).sum
    ELSE (CHOOSE r \in HmacSha1Table :
              secret = HmacSha1Key /\ r.msg = timeBytes).sum

\* variant masking five bits
TruncOffsetFiveBits(hash) == hash[Len(hash)] % 32

\* hash[len(hash)-1] & 0x0F
TruncOffset(hash) == hash[Len(hash)] % 16

\* binary.BigEndian.Uint32(hash[offset:offset+4]) & 0x7FFFFFFF
TruncatedHash(hash) ==
    LET offset == TruncOffset(hash) IN
      (hash[offset + 1] % 128) * 16777216
    + hash[offset + 2] * 65536
    + hash[offset + 3] * 256
    + hash[offset + 4]

\* decimal digits of n, most significant first
RECURSIVE Itoa(_)
Itoa(n) == IF n < 10 THEN <<Digits[n + 1]>>
           ELSE Append(Itoa(n \div 10), Digits[(n % 10) + 1])

RECURSIVE PadZero(_, _)
PadZero(s, width) == IF Len(s) >= width THEN s ELSE PadZero(<<"0">> \o s, width)

\* formatting with "%d": no padding
Sprintf04dNoPad(n) == Itoa(n)

\* fmt.Sprintf("%04d", n): at least four characters, zero-padded on the left
Sprintf04d(n) == PadZero(Itoa(n), 4)

\* variant whose intermediate reduction is to 16 bits, not to 6 digits
FourDigitOTPViaTwoBytes(truncatedHash) ==
    LET sixDigitOTP == truncatedHash % 65536 IN sixDigitOTP % 10000

\* variant keeping the leading four of the six digits
FourDigitOTPLeading(truncatedHash) ==
    LET sixDigitOTP == truncatedHash % 1000000 IN sixDigitOTP \div 100

\* sixDigitOTP := truncatedHash % 1000000; fourDigitOTP := sixDigitOTP % 10000
FourDigitOTP(truncatedHash) ==
    LET sixDigitOTP == truncatedHash % 1000000 IN sixDigitOTP % 10000

generate4DigitTOTP(secret, timeCounter) ==
    Sprintf04d(FourDigitOTP(TruncatedHash(HmacSha1(secret, PutUint64(timeCounter)))))

\* the indices (from 0) of the bytes that hash[offset:offset+4] reads
TruncReads(hash) == LET offset == TruncOffset(hash) IN offset..(offset + 3)

(* ------------------------ the device's derivation ---------------------- *)

\* uint8_t hmacKey[10], zero-initialised, after the decoder stored `result`
\* through hmacKey[index++]
hmacKey(result) ==
    [i \in 1..10 |-> IF i <= Len(result) THEN result[i] ELSE 0]

\* the key handed to TOTP totp(hmacKey, 10) once setup() has decoded
\* base32Secret, which is the same literal as the server's BASE32_SECRET
DeviceKey(fw) ==
    hmacKey(IF fw = "sketch" THEN decodeBase32Secret(BASE32_SECRET).result
                             ELSE manualBase32Decode(BASE32_SECRET).result)

\* sprintf("%06ld", n) of the TOTP library
Sprintf06d(n) == PadZero(Itoa(n), 6)

\* the six-digit code the TOTP library makes of a truncated hash
TotpCode(truncatedHash) == Sprintf06d(truncatedHash % 1000000)

\* totp.getCode(unixTime): HOTP of the key for unixTime / 30
TotpGetCode(key, unixTime) ==
    TotpCode(TruncatedHash(HmacSha1(key, PutUint64(unixTime \div 30))))

\* String::toInt(): the decimal value of a string of digits
RECURSIVE ToInt(_)
ToInt(s) ==
    IF s = <<>> THEN 0
    ELSE 10 * ToInt(SubSeq(s, 1, Len(s) - 1))
           + (CHOOSE d \in 0..9 : Digits[d + 1] = s[Len(s)])

\* variant without the padding loop
DevicePadNone(s) == s

\* while (otp4.length() < 4) otp4 = "0" + otp4;
DevicePad(s) == PadZero(s, 4)

\* the four-character code generateOTP / generateAndPrint4DigitOTP make of
\* the library's six-digit code
DeviceOtp4(otp6) == DevicePad(Itoa(ToInt(otp6) % 10000))

(* ------------------------- validate4DigitTOTP -------------------------- *)

\* the loop  for i := -SKEW_TOLERANCE; i <= SKEW_TOLERANCE; i++ ; `tried` is
\* the list of counters handed to generate4DigitTOTP so far, in order
RECURSIVE ValidateLoop(_, _, _, _, _)
ValidateLoop(i, providedOTP, secret, currentTimeCounter, tried) ==
    IF i > SKEW_TOLERANCE
    THEN [ok |-> FALSE, tried |-> tried, offset |-> 0, skewLog |-> FALSE]
    ELSE LET timeCounter == currentTimeCounter + i IN
         IF timeCounter < 0
         THEN ValidateLoop(i + 1, providedOTP, secret, currentTimeCounter, tried)
         ELSE LET expectedOTP == generate4DigitTOTP(secret, timeCounter) IN
              IF providedOTP = expectedOTP
              THEN [ok |-> TRUE, tried |-> Append(tried, timeCounter),
                    offset |-> i, skewLog |-> (i # 0)]
              ELSE ValidateLoop(i + 1, providedOTP, secret, currentTimeCounter,
                                Append(tried, timeCounter))

\* variant that tries the current window only
validate4DigitTOTP_NoSkew(providedOTP, secret, currentTime) ==
    ValidateLoop(0, providedOTP, secret, currentTime \div TIME_STEP, <<>>)

\* variant whose current counter is rounded up
validate4DigitTOTP_Ahead(providedOTP, secret, currentTime) ==
    ValidateLoop(-SKEW_TOLERANCE, providedOTP, secret,
                 (currentTime \div TIME_STEP) + 1, <<>>)

\* currentTime is what time.Now().UTC().Unix() returns inside the call
validate4DigitTOTP(providedOTP, secret, currentTime) ==
    ValidateLoop(-SKEW_TOLERANCE, providedOTP, secret,
                 currentTime \div TIME_STEP, <<>>)

(* ------------------------------ requests ------------------------------- *)

\* secret, err := decodeBase32(BASE32_SECRET), as every handler computes it
DecodedSecret == decodeBase32(BASE32_SECRET)

Methods == {"GET", "POST", "OPTIONS"}

\* strconv.Atoi on a string of at most OTP_DIGITS characters: an optional
\* sign followed by at least one decimal digit, nothing else
AtoiErr(s) ==
    LET body == IF s # <<>> /\ Head(s) \in {"+", "-"} THEN Tail(s) ELSE s
    IN  body = <<>> \/ \E i \in 1..Len(body) : body[i] \notin DigitSet

\* json.NewDecoder(r.Body).Decode(&req): a body is either not the JSON of a
\* ValidateRequest (error) or yields the string of its "otp" member
JsonDecode(body) ==
    IF body.wellFormed THEN [err |-> FALSE, OTP |-> body.otp]
                       ELSE [err |-> TRUE, OTP |-> <<>>]

MsgMethod == "Method not allowed. Use POST."

MsgJSON == "Invalid JSON format"

MsgLength == "OTP must be " \o ToString(OTP_DIGITS) \o " digits"

MsgNumeric == "OTP must contain only digits"

MsgInternal == "Internal server error"

MsgValid == "4-digit OTP is valid"

MsgInvalid == "Invalid 4-digit OTP"

NoValidation == [ok |-> FALSE, tried |-> <<>>, offset |-> 0, skewLog |-> FALSE]

\* the common shape of a served response; `steps` lists, in order, the
\* checks and calls the handler executed
Response(handler, method, wf, at, status, valid, message, otp, steps, v, code, exp) ==
    [handler |-> handler, method |-> method, wellFormed |-> wf, at |-> at,
     status |-> status,
     valid |-> valid, message |-> message, otp |-> otp, steps |-> steps,
     tried |-> v.tried, offset |-> v.offset, skewLog |-> v.skewLog,
     code |-> code, expiresAt |-> exp]

NoResponse ==
    Response("none", "", FALSE, 0, 0, FALSE, "", <<>>, <<>>, NoValidation, <<>>, 0)

Derivations(tried) == [k \in 1..Len(tried) |-> "generate4DigitTOTP"]

(* --------------------------- validateHandler --------------------------- *)

\* variant answering a failed validation with 401
ValidationStatusUnauthorized(isValid) == IF isValid THEN StatusOK ELSE 401

\* the response built from isValid; no WriteHeader call, so the status is 200
ValidationStatus(isValid) == StatusOK

ValidationMessage(isValid) == IF isValid THEN MsgValid ELSE MsgInvalid

\* variant that decodes the secret on entry, ahead of the shape checks
validateHandlerDecodeFirst(method, body, t) ==
    LET req    == JsonDecode(body)
        secret == DecodedSecret
        v      == validate4DigitTOTP(req.OTP, secret.bytes, t)
        Reject(status, message, otp, steps) ==
            Response("validate", method, body.wellFormed, t, status, FALSE,
                     message, otp, <<"decodeBase32">> \o steps, NoValidation,
                     <<>>, 0)
        shape  == <<"method", "jsonDecode", "len", "Atoi">>
    IN
    IF method = "OPTIONS" THEN Reject(StatusOK, "", <<>>, <<"method">>)
    ELSE IF method # "POST" THEN
        Reject(StatusMethodNotAllowed, MsgMethod, <<>>, <<"method">>)
    ELSE IF req.err THEN
        Reject(StatusBadRequest, MsgJSON, <<>>, <<"method", "jsonDecode">>)
    ELSE IF Len(req.OTP) # OTP_DIGITS THEN
        Reject(StatusBadRequest, MsgLength, req.OTP,
               <<"method", "jsonDecode", "len">>)
    ELSE IF AtoiErr(req.OTP) THEN
        Reject(StatusBadRequest, MsgNumeric, req.OTP, shape)
    ELSE
        Response("validate", method, body.wellFormed, t, ValidationStatus(v.ok),
                 v.ok, ValidationMessage(v.ok), req.OTP,
                 <<"decodeBase32">> \o shape \o <<"validate4DigitTOTP">>
                       \o Derivations(v.tried) \o <<"generate4DigitTOTP">>,
                 v, <<>>, 0)

validateHandler(method, body, t) ==
    LET Reject(status, message, otp, steps) ==
            Response("validate", method, body.wellFormed, t, status, FALSE,
                     message, otp, steps, NoValidation, <<>>, 0)
        req    == JsonDecode(body)
        secret == DecodedSecret
        v      == validate4DigitTOTP(req.OTP, secret.bytes, t)
        shape  == <<"method", "jsonDecode", "len", "Atoi">>
    IN
    IF method = "OPTIONS" THEN
        Reject(StatusOK, "", <<>>, <<"method">>)
    ELSE IF method # "POST" THEN
        Reject(StatusMethodNotAllowed, MsgMethod, <<>>, <<"method">>)
    ELSE IF req.err THEN
        Reject(StatusBadRequest, MsgJSON, <<>>, <<"method", "jsonDecode">>)
    ELSE IF Len(req.OTP) # OTP_DIGITS THEN
        Reject(StatusBadRequest, MsgLength, req.OTP,
               <<"method", "jsonDecode", "len">>)
    ELSE IF AtoiErr(req.OTP) THEN
        Reject(StatusBadRequest, MsgNumeric, req.OTP, shape)
    ELSE IF secret.err THEN
        Reject(StatusInternalServerError, MsgInternal, req.OTP,
               shape \o <<"decodeBase32">>)
    ELSE
        Response("validate", method, body.wellFormed, t, ValidationStatus(v.ok),
                 v.ok, ValidationMessage(v.ok), req.OTP,
                 shape \o <<"decodeBase32", "validate4DigitTOTP">>
                       \o Derivations(v.tried) \o <<"generate4DigitTOTP">>,
                 v, <<>>, 0)

(* -------------------------- generateOtpHandler ------------------------- *)

\* variant rounding to the nearest window
GenerateTimeCounterNearest(nowUnix) == (nowUnix + 15) \div TIME_STEP

\* timeCounter := uint64(now.Unix()) / TIME_STEP
GenerateTimeCounter(nowUnix) == nowUnix \div TIME_STEP

\* variant announcing two time windows
ExpiresAtMsTwoWindows(nowUnix) == (nowUnix + 2 * TIME_STEP) * 1000

\* variant: start of the next window
ExpiresAtMsNextWindow(nowUnix) == ((nowUnix \div TIME_STEP) + 1) * TIME_STEP * 1000

\* expiresAtMs := (now.Unix() + TIME_STEP) * 1000
ExpiresAtMs(nowUnix) == (nowUnix + TIME_STEP) * 1000

generateOtpHandler(method, t) ==
    LET Plain(status, message, steps) ==
            Response("get-otp", method, FALSE, t, status, FALSE, message, <<>>,
                     steps, NoValidation, <<>>, 0)
        secret      == DecodedSecret
        timeCounter == GenerateTimeCounter(t)
        otp         == generate4DigitTOTP(secret.bytes, timeCounter)
    IN
    IF method = "OPTIONS" THEN
        Plain(StatusOK, "", <<"method">>)
    ELSE IF method # "GET" THEN
        Plain(StatusMethodNotAllowed, "Method not allowed", <<"method">>)
    ELSE IF secret.err THEN
        Plain(StatusInternalServerError, "Internal error",
              <<"method", "decodeBase32">>)
    ELSE
        Response("get-otp", method, FALSE, t, StatusOK, FALSE, "", <<>>,
                 <<"method", "decodeBase32", "generate4DigitTOTP">>,
                 NoValidation, otp, ExpiresAtMs(t))

(* ----------------------------- healthHandler --------------------------- *)

healthHandler(t) ==
    LET secret      == DecodedSecret
        timeCounter == t \div TIME_STEP
    IN  Response("health", "GET", FALSE, t, StatusOK, FALSE, "healthy", <<>>,
                 <<"decodeBase32", "generate4DigitTOTP">>, NoValidation,
                 generate4DigitTOTP(secret.bytes, timeCounter), 0)

(* ------------------------------- state --------------------------------- *)

VARIABLES
    startTime,  \* Unix time at which the server was started
    now,        \* the wall clock, Unix seconds
    resp,       \* the response served last
    issued      \* the GenerateOtpResponse values served by the last two
                \* successful /get-otp calls, oldest first, each with the
                \* time of the call

VARIABLES
    enc,        \* an encoded secret string handed to the decoders
    dec,        \* what the decoders returned for enc
    drv         \* one derivation: its inputs and what server and device
                \* computed from them

VARIABLES
    reqs        \* the requests being served concurrently, each on its own
                \* goroutine: the position and the locals of its handler

VARIABLES
    dev         \* the device: the firmware it runs, the position of its
                \* program and its globals

VARIABLES
    form        \* the state of the web form (App.tsx)

vars == <<startTime, now, resp, issued, enc, dec, drv, reqs, dev, form>>

decodeVars == <<enc, dec>>

\* no derivation made yet
NoDerivation ==
    [kind |-> "none", key |-> <<>>, at |-> 0, counter |-> 0, hash |-> <<>>,
     offset |-> 0, reads |-> {}, truncated |-> 0, code |-> <<>>,
     device |-> <<>>]

\* the variables the server's handlers do not touch
others == <<enc, dec, drv, reqs, dev, form>>

\* the form as mounted: no code fetched, nothing submitted
FormEmpty ==
    [otp |-> <<>>, expiresAt |-> 0, countdown |-> 0, result |-> "none",
     submittedAt |-> 0]

\* String currentOTP = "0000"
NoOTP == <<"0", "0", "0", "0">>

\* the display cleared
Blank == <<" ", " ", " ", " ">>

\* an unsigned long of 32 bits, as <<high 16 bits, low 16 bits>>
U32(n) == <<0, n>>

\* a device not powered
DeviceOff ==
    [fw |-> "sketch", pc |-> "off", attempts |-> 0, ntpServer |-> "silent",
     timeSetFromNTP |-> FALSE, millis |-> U32(0), lastButtonPress |-> U32(0),
     otpGeneratedTime |-> U32(0), currentOTP |-> NoOTP, display |-> Blank,
     shownAt |-> U32(0), generated |-> FALSE, everGenerated |-> FALSE,
     heldGenerations |-> 0, iter |-> 0]

\* the goroutines net/http serves requests on
Requests == {"r1", "r2"}

NoSecret == [bytes |-> <<>>, err |-> FALSE]

\* what a client receives: status and body of the response (the health
\* response carries the Unix time read)
Wire(r) ==
    [status |-> r.status, valid |-> r.valid, message |-> r.message,
     code |-> r.code, expiresAt |-> r.expiresAt,
     unixTime |-> IF r.handler = "health" THEN r.at ELSE 0]

\* a goroutine serving nothing
Idle ==
    [pc |-> "idle", handler |-> "none", method |-> "",
     body |-> [wellFormed |-> FALSE, otp |-> <<>>],
     secret |-> NoSecret, t |-> 0, out |-> Wire(NoResponse)]

serverVars == <<startTime, now, resp, issued>>

\* the clock values of a run
Times(start) ==
    {start + w * TIME_STEP + o : w \in 0..(MaxWindows - 1), o \in Offsets}

\* strings a client submits besides the codes it was issued
FixedOTPs == { <<"1","2","3","4">>, <<"+","1","2","3">>, <<"1","2","a","4">>,
               <<"1","2","3">>, <<"a","b">> }

Bodies ==
    {[wellFormed |-> FALSE, otp |-> <<>>]}
      \cup {[wellFormed |-> TRUE, otp |-> s] :
               s \in FixedOTPs \cup {issued[k].otp : k \in 1..Len(issued)}}

Init ==
    /\ startTime \in {c * TIME_STEP : c \in StartCounters}
    /\ now = startTime
    /\ resp = NoResponse
    /\ issued = <<>>
    /\ enc = <<>>
    /\ dec = DecodeAll(<<>>)
    /\ drv = NoDerivation
    /\ reqs = [i \in Requests |-> Idle]
    /\ dev = DeviceOff
    /\ form = FormEmpty

\* the clock reaches the next observed second
Tick ==
    /\ \E t \in Times(startTime) :
           /\ t > now
           /\ \A u \in Times(startTime) : u > now => t <= u
           /\ now' = t
    /\ UNCHANGED <<startTime, resp, issued>>
    /\ UNCHANGED others

\* the wall clock is set back to the previous observed second
\* (time.Now() is not monotonic)
ClockSetBack ==
    /\ \E t \in Times(startTime) :
           /\ t < now
           /\ \A u \in Times(startTime) : u < now => u <= t
           /\ now' = t
    /\ UNCHANGED <<startTime, resp, issued>>
    /\ UNCHANGED others

Validate ==
    /\ \E method \in Methods, body \in Bodies :
           resp' = validateHandler(method, body, now)
    /\ UNCHANGED <<startTime, now, issued>>
    /\ UNCHANGED others

Remember(r) ==
    LET rec == [otp |-> r.code, expiresAt |-> r.expiresAt, at |-> r.at]
    IN  IF Len(issued) < 2 THEN Append(issued, rec) ELSE <<issued[2], rec>>

Generate ==
    /\ \E method \in Methods :
           LET r == generateOtpHandler(method, now) IN
           /\ resp' = r
           /\ issued' = IF r.code # <<>> THEN Remember(r) ELSE issued
    /\ UNCHANGED <<startTime, now>>
    /\ UNCHANGED others

Health ==
    /\ resp' = healthHandler(now)
    /\ UNCHANGED <<startTime, now, issued>>
    /\ UNCHANGED others

Next == Tick \/ ClockSetBack \/ Validate \/ Generate \/ Health

Spec == Init /\ [][Next]_vars

(* -------------------------- the decoders alone ------------------------- *)

\* longest encoded string handed to the decoders
MaxEncLen == 7

\* characters of the encoded strings: "7" (value 31), a lower-case "b"
\* (value 1 once upper-cased), a space and a digit outside the alphabet
EncChars == {"7", "b", " ", "9"}

InitDecode ==
    /\ startTime = 0
    /\ now = 0
    /\ resp = NoResponse
    /\ issued = <<>>
    /\ enc = <<>>
    /\ dec = DecodeAll(<<>>)
    /\ drv = NoDerivation
    /\ reqs = [i \in Requests |-> Idle]
    /\ dev = DeviceOff
    /\ form = FormEmpty

\* one more character of the encoded string, and the decoders run on it
TypeChar ==
    /\ Len(enc) < MaxEncLen
    /\ \E ch \in EncChars :
           /\ enc' = Append(enc, ch)
           /\ dec' = DecodeAll(enc')
    /\ UNCHANGED <<serverVars, drv, reqs, dev, form>>

NextDecode == TypeChar

SpecDecode == InitDecode /\ [][NextDecode]_vars

(* ------------------------- the derivation alone ------------------------ *)

\* the digests are built from fill patterns 0..MaxFill
MaxFill == 3

\* the derivations from the clock cover the counters 0..MaxDeriveCounter
\* and, for the configured secret, the same number of counters from 916
MaxDeriveCounter == 3

\* a 20-byte digest: bytes 1..19 follow the fill pattern (all 0, all 255,
\* or a progression), byte 20 is `last`, whose low four bits are the offset
SampleDigest(fill, last) ==
    [i \in 1..20 |->
        IF i = 20 THEN last
        ELSE IF fill = 0 THEN 0
        ELSE IF fill = 1 THEN 255
        ELSE (i * fill * 29 + fill) % 256]

SampleDigests == {SampleDigest(fill, last) : fill \in 0..MaxFill, last \in 0..255}

DeriveTimes ==
    {c * TIME_STEP + o : c \in 0..MaxDeriveCounter, o \in Offsets}

InitDerive ==
    /\ startTime = 0
    /\ now = 0
    /\ resp = NoResponse
    /\ issued = <<>>
    /\ enc = <<>>
    /\ dec = DecodeAll(<<>>)
    /\ drv = NoDerivation
    /\ reqs = [i \in Requests |-> Idle]
    /\ dev = DeviceOff
    /\ form = FormEmpty

\* dynamic truncation, reduction and formatting of one digest, as the server
\* does them (a slice outside the digest panics: truncated = -1, no code)
\* and as the device does them
Derivation(kind, key, at, hash, device) ==
    LET inside == \A i \in TruncReads(hash) : i \in 0..(Len(hash) - 1)
        truncatedHash == IF inside THEN TruncatedHash(hash) ELSE -1
    IN  [kind |-> kind, key |-> key, at |-> at, counter |-> at \div TIME_STEP,
         hash |-> hash, offset |-> TruncOffset(hash), reads |-> TruncReads(hash),
         truncated |-> truncatedHash,
         code |-> IF inside THEN Sprintf04d(FourDigitOTP(truncatedHash))
                            ELSE <<>>,
         device |-> IF inside /\ device
                    THEN DeviceOtp4(TotpCode(truncatedHash)) ELSE <<>>]

\* an arbitrary digest goes through the truncation of server and device
TruncateDigest ==
    /\ \E hash \in SampleDigests :
           drv' = Derivation("digest", <<>>, 0, hash, TRUE)
    /\ UNCHANGED <<serverVars, decodeVars, reqs, dev, form>>

\* server and device (either firmware) derive the code of the configured
\* secret at the same Unix time
DeriveConfigured ==
    /\ \E base \in StartCounters, t \in DeriveTimes, fw \in Firmwares :
           LET at      == base * TIME_STEP + t
               counter == at \div TIME_STEP
               secret  == DecodedSecret.bytes
               d       == Derivation(fw, secret, at,
                                     HmacSha1(secret, PutUint64(counter)), TRUE)
           IN  drv' = [d EXCEPT
                         !.code   = generate4DigitTOTP(secret, counter),
                         !.device = DeviceOtp4(TotpGetCode(DeviceKey(fw), at))]
    /\ UNCHANGED <<serverVars, decodeVars, reqs, dev, form>>

\* the server derives the code of the RFC 4226 test key
DeriveRfc ==
    /\ \E t \in DeriveTimes :
           LET counter == t \div TIME_STEP
               d == Derivation("rfc", RfcKey, t,
                               HmacSha1(RfcKey, PutUint64(counter)), FALSE)
           IN  drv' = [d EXCEPT !.code = generate4DigitTOTP(RfcKey, counter)]
    /\ UNCHANGED <<serverVars, decodeVars, reqs, dev, form>>

NextDerive == TruncateDigest \/ DeriveConfigured \/ DeriveRfc

SpecDerive == InitDerive /\ [][NextDerive]_vars

(* -------------------------- concurrent serving ------------------------- *)

\* the requests clients send concurrently
ConcurrentBodies ==
    {[wellFormed |-> FALSE, otp |-> <<>>],
     [wellFormed |-> TRUE, otp |-> <<"0", "5", "1", "3">>],
     [wellFormed |-> TRUE, otp |-> <<"8", "2", "2", "9">>]}

Arrivals ==
    {[handler |-> "validate", method |-> "POST", body |-> b] :
        b \in ConcurrentBodies}
      \cup {[handler |-> "get-otp", method |-> m, body |-> Idle.body] :
               m \in {"GET", "POST"}}
      \cup {[handler |-> "health", method |-> "GET", body |-> Idle.body]}

\* the request passes the checks made before the secret and the clock are
\* touched
PassesChecks(r) ==
    IF r.handler = "validate"
    THEN /\ r.method = "POST"
         /\ ~JsonDecode(r.body).err
         /\ Len(JsonDecode(r.body).OTP) = OTP_DIGITS
         /\ ~AtoiErr(JsonDecode(r.body).OTP)
    ELSE IF r.handler = "get-otp" THEN r.method = "GET"
    ELSE TRUE

\* the response the handler of r gives when it runs alone, start to end, at
\* clock value t
ServedAlone(r, t) ==
    IF r.handler = "validate" THEN validateHandler(r.method, r.body, t)
    ELSE IF r.handler = "get-otp" THEN generateOtpHandler(r.method, t)
    ELSE healthHandler(t)

\* variant building the response from a second reading of the clock
RespondClockLate(r, clock) == clock

\* the response is built from the reading the handler stored in its local
RespondClock(r, clock) == r.t

InitConcurrent == Init

\* net/http starts a goroutine for an arriving request
Accept(i) ==
    /\ reqs[i].pc = "idle"
    /\ \E a \in Arrivals :
           reqs' = [reqs EXCEPT ![i] =
                      [Idle EXCEPT !.pc = "check", !.handler = a.handler,
                                   !.method = a.method, !.body = a.body]]
    /\ UNCHANGED <<serverVars, decodeVars, drv, dev, form>>

\* method, JSON, length and Atoi checks; a failing request is answered at
\* once. healthHandler reads the clock before it decodes the secret.
Check(i) ==
    LET r == reqs[i] IN
    /\ r.pc = "check"
    /\ reqs' = [reqs EXCEPT ![i] =
                  IF ~PassesChecks(r)
                  THEN [r EXCEPT !.pc = "done", !.out = Wire(ServedAlone(r, 0))]
                  ELSE IF r.handler = "health" THEN [r EXCEPT !.pc = "clock"]
                  ELSE [r EXCEPT !.pc = "decode"]]
    /\ UNCHANGED <<serverVars, decodeVars, drv, dev, form>>

\* secret, err := decodeBase32(BASE32_SECRET), into a local
DecodeSecret(i) ==
    LET r == reqs[i] IN
    /\ r.pc = "decode"
    /\ reqs' = [reqs EXCEPT ![i] =
                  [r EXCEPT !.secret = decodeBase32(BASE32_SECRET),
                            !.pc = IF r.handler = "health" THEN "respond"
                                                           ELSE "clock"]]
    /\ UNCHANGED <<serverVars, decodeVars, drv, dev, form>>

\* time.Now().UTC(), into a local
ReadClock(i) ==
    LET r == reqs[i] IN
    /\ r.pc = "clock"
    /\ reqs' = [reqs EXCEPT ![i] =
                  [r EXCEPT !.t = now,
                            !.pc = IF r.handler = "health" THEN "decode"
                                                           ELSE "respond"]]
    /\ UNCHANGED <<serverVars, decodeVars, drv, dev, form>>

\* the derivations and the response, computed from the locals
Respond(i) ==
    LET r      == reqs[i]
        t      == RespondClock(r, now)
        v      == validate4DigitTOTP(JsonDecode(r.body).OTP, r.secret.bytes, t)
        code   == generate4DigitTOTP(r.secret.bytes, t \div TIME_STEP)
        out    ==
            IF r.handler = "validate"
            THEN [status |-> ValidationStatus(v.ok), valid |-> v.ok,
                  message |-> ValidationMessage(v.ok), code |-> <<>>,
                  expiresAt |-> 0, unixTime |-> 0]
            ELSE IF r.handler = "get-otp"
            THEN [status |-> StatusOK, valid |-> FALSE, message |-> "",
                  code |-> code, expiresAt |-> ExpiresAtMs(t), unixTime |-> 0]
            ELSE [status |-> StatusOK, valid |-> FALSE, message |-> "healthy",
                  code |-> code, expiresAt |-> 0, unixTime |-> t]
    IN
    /\ r.pc = "respond"
    /\ reqs' = [reqs EXCEPT ![i] = [r EXCEPT !.pc = "done", !.out = out]]
    /\ UNCHANGED <<serverVars, decodeVars, drv, dev, form>>

\* the handler returns; its goroutine ends
Release(i) ==
    /\ reqs[i].pc = "done"
    /\ reqs' = [reqs EXCEPT ![i] = Idle]
    /\ UNCHANGED <<serverVars, decodeVars, drv, dev, form>>

NextConcurrent ==
    \/ Tick
    \/ \E i \in Requests : Accept(i)
    \/ \E i \in Requests : Check(i)
    \/ \E i \in Requests : DecodeSecret(i)
    \/ \E i \in Requests : ReadClock(i)
    \/ \E i \in Requests : Respond(i)
    \/ \E i \in Requests : Release(i)

SpecConcurrent == InitConcurrent /\ [][NextConcurrent]_vars

(* ------------------------------ the device ----------------------------- *)

\* loop iterations followed from the end of setup()
MaxIter == 3

\* while (... && attempts < 20)
WifiAttempts == 20

\* unsigned 32-bit addition and subtraction, modulo 2^32
U32Add(a, b) ==
    LET lo == a[2] + b[2]
    IN  <<(a[1] + b[1] + (lo \div 65536)) % 65536, lo % 65536>>

U32Sub(a, b) ==
    LET lo == a[2] - b[2] + 65536
    IN  <<(a[1] - b[1] - (IF lo < 65536 THEN 1 ELSE 0) + 65536) % 65536,
          lo % 65536>>

\* a < n and a > n for a constant n below 2^16
U32Less(a, n) == a[1] = 0 /\ a[2] < n

U32Greater(a, n) == a[1] > 0 \/ a[2] > n

\* (a / 500) % 2 == 0
U32HalfSecondEven(a) == (((a[1] % 1000) * 536 + a[2]) % 1000) < 500

DEBOUNCE_DELAY == 500

\* delay() at the end of loop()
LoopDelay(fw) == IF fw = "sketch" THEN 80 ELSE 100

\* delay() of handleButtonPress
LedDelay(fw) == IF fw = "sketch" THEN 120 ELSE 200

\* time spent in iterations of loop() that find the button released, between
\* two iterations the model follows: none, just under and just over the 30 s
\* of display, and 2^32 - 30000 ms
Gaps == {U32(0), U32(29900), U32(29920), <<65535, 35536>>}

\* time spent in the iterations that follow an accepted press and find the
\* button still held LOW inside the debounce delay: the next iteration is
\* the first one more than DEBOUNCE_DELAY after the press
HeldGap(fw) == IF fw = "sketch" THEN U32(320) ELSE U32(300)

\* what rtc.now().unixtime() returns: in the first window, in the last
\* five seconds of the second one, and on 2026-11-06 at 18:50:00 UTC
DeviceTimes == {0, 57, 1793991000}

\* the code each firmware generates at these times
DeviceCodes ==
    [fw \in Firmwares |->
        [t \in DeviceTimes |-> DeviceOtp4(TotpGetCode(DeviceKey(fw), t))]]

\* millis() when setup() returns
SetupMillis == {U32(3800), U32(11800)}

Dashes == <<"-", "-", "-", "-">>

\* display.showNumberDec(otp.toInt(), true)
ShowNumberDec(otp) == PadZero(Itoa(ToInt(otp)), 4)

\* variant that keeps the code on the display
UpdateDisplayNoTimeout(fw, currentOTP, otpGeneratedTime, m, unixTime) ==
    IF currentOTP # NoOTP THEN ShowNumberDec(currentOTP) ELSE Dashes

\* updateDisplay() called when millis() = m and the RTC reads unixTime
UpdateDisplay(fw, currentOTP, otpGeneratedTime, m, unixTime) ==
    LET elapsed == U32Sub(m, otpGeneratedTime) IN
    IF U32Less(elapsed, 30000) /\ currentOTP # NoOTP
    THEN IF fw = "part000" /\ 30 - (unixTime % 30) <= 5 /\ U32HalfSecondEven(m)
         THEN Blank
         ELSE ShowNumberDec(currentOTP)
    ELSE Dashes

InitDevice ==
    /\ startTime = 0
    /\ now = 0
    /\ resp = NoResponse
    /\ issued = <<>>
    /\ enc = <<>>
    /\ dec = DecodeAll(<<>>)
    /\ drv = NoDerivation
    /\ reqs = [i \in Requests |-> Idle]
    /\ form = FormEmpty
    /\ \E fw \in Firmwares, ntp \in {"silent", "answers"} :
           dev = [DeviceOff EXCEPT !.fw = fw, !.pc = "boot", !.ntpServer = ntp]

notDevice == <<serverVars, decodeVars, drv, reqs, form>>

\* setup() up to rtc.begin(): without the RTC the device stays in
\* while (1) delay(1000)
Boot ==
    /\ dev.pc = "boot"
    /\ \E found \in BOOLEAN :
           dev' = IF found
                  THEN [dev EXCEPT !.pc = "wifi", !.display = Blank]
                  ELSE [dev EXCEPT !.pc = "halt",
                          !.display = IF dev.fw = "sketch" THEN Blank
                                      ELSE <<"E", "r", "r", " ">>]
    /\ UNCHANGED notDevice

\* one test of  while (WiFi.status() != WL_CONNECTED && attempts < 20)  and
\* what follows it (attempts is a local); without WiFi the sketch returns and part_000 falls back
\* to the time of the RTC; with WiFi part_000 calls timeClient.update() once
\* and syncRTCWithNTP()
WifiWait ==
    /\ dev.pc = "wifi"
    /\ \E connected \in BOOLEAN, isTimeSet \in BOOLEAN :
           dev' =
             IF ~connected /\ dev.attempts < WifiAttempts
             THEN [dev EXCEPT !.attempts = dev.attempts + 1]
             ELSE IF ~connected THEN [dev EXCEPT !.pc = "decode", !.attempts = 0]
             ELSE IF dev.fw = "sketch"
             THEN [dev EXCEPT !.pc = "ntpUpdate", !.attempts = 0]
             ELSE [dev EXCEPT !.pc = "decode", !.attempts = 0,
                     !.timeSetFromNTP = isTimeSet /\ dev.ntpServer = "answers"]
    /\ UNCHANGED notDevice

\* the test of  while (!timeClient.update())  in the sketch: update() is
\* true only when the NTP server answered
NtpUpdate ==
    /\ dev.pc = "ntpUpdate"
    /\ \E answered \in BOOLEAN :
           dev' = IF answered /\ dev.ntpServer = "answers"
                  THEN [dev EXCEPT !.pc = "decode", !.timeSetFromNTP = TRUE]
                  ELSE [dev EXCEPT !.pc = "ntpForce"]
    /\ UNCHANGED notDevice

\* the body of that loop: timeClient.forceUpdate()
NtpForce ==
    /\ dev.pc = "ntpForce"
    /\ dev' = [dev EXCEPT !.pc = "ntpUpdate"]
    /\ UNCHANGED notDevice

\* the rest of setup(): decodeBase32Secret(), READY, display.clear()
FinishSetup ==
    /\ dev.pc = "decode"
    /\ \E m \in SetupMillis :
           dev' = [dev EXCEPT !.pc = "loop", !.millis = m, !.display = Blank,
                              !.shownAt = m]
    /\ UNCHANGED notDevice

\* one iteration of loop(), entered after `gap` ms of iterations that found
\* the button released (or, for HeldGap, still held since the press the
\* previous iteration accepted): button test, handleButtonPress() and the
\* generation of a code, updateDisplay(), delay()
LoopIteration ==
    /\ dev.pc = "loop"
    /\ dev.iter < MaxIter
    /\ \E gap \in Gaps \cup {HeldGap(dev.fw)}, low \in BOOLEAN,
          unixTime \in DeviceTimes :
           LET held    == gap = HeldGap(dev.fw)
               m0      == U32Add(dev.millis, gap)
               press   == low /\ U32Greater(U32Sub(m0, dev.lastButtonPress),
                                            DEBOUNCE_DELAY)
               m1      == IF press THEN U32Add(m0, U32(LedDelay(dev.fw))) ELSE m0
               otp     == IF press
                          THEN DeviceCodes[dev.fw][unixTime]
                          ELSE dev.currentOTP
               g       == IF press THEN m1 ELSE dev.otpGeneratedTime
           IN  /\ held => dev.generated /\ low
               /\ dev' = [dev EXCEPT
                         !.heldGenerations =
                             IF press /\ held THEN @ + 1
                             ELSE IF press THEN 1 ELSE 0,
                         !.everGenerated = @ \/ press,
                         !.lastButtonPress = IF press THEN m0 ELSE @,
                         !.currentOTP = otp,
                         !.otpGeneratedTime = g,
                         !.generated = press,
                         !.shownAt = m1,
                         !.display = UpdateDisplay(dev.fw, otp, g, m1, unixTime),
                         !.millis = U32Add(m1, U32(LoopDelay(dev.fw))),
                         !.iter = dev.iter + 1]
    /\ UNCHANGED notDevice

NextDevice ==
    Boot \/ WifiWait \/ NtpUpdate \/ NtpForce \/ FinishSetup \/ LoopIteration

SpecDevice == InitDevice /\ [][NextDevice]_vars

\* the processor keeps executing the program; whether the network answers
\* is not up to it
SpecDeviceFair == SpecDevice /\ WF_vars(NextDevice)

(* ----------------------------- the web form ---------------------------- *)

\* const OTP_TTL = 60; // seconds until OTP considered expired
OTP_TTL == 60

\* setExpiresAt(Date.now() + OTP_TTL * 1000)
FormExpiresAt(dateNow) == dateNow + OTP_TTL * 1000

\* Math.max(0, Math.ceil((targetExpiresAt - Date.now()) / 1000))
Countdown(targetExpiresAt, dateNow) ==
    LET ms == targetExpiresAt - dateNow
    IN  IF ms <= 0 THEN 0 ELSE (ms + 999) \div 1000

\* const isExpired = countdown === 0 && otp !== ""
isExpired == form.countdown = 0 /\ form.otp # <<>>

\* Date.now() in the browser, which runs on the server's host (API_BASE is
\* localhost)
DateNow == now * 1000

formFrame == <<decodeVars, drv, reqs, dev>>

\* fetchOtp(): GET /get-otp, then setOtp, setExpiresAt and the first tick
\* of the countdown
FetchOtp ==
    LET r == generateOtpHandler("GET", now) IN
    /\ r.status = StatusOK /\ Len(r.code) = OTP_DIGITS
    /\ resp' = r
    /\ issued' = Remember(r)
    /\ form' = [otp |-> r.code, expiresAt |-> FormExpiresAt(DateNow),
                countdown |-> Countdown(FormExpiresAt(DateNow), DateNow),
                result |-> "none", submittedAt |-> 0]
    /\ UNCHANGED <<startTime, now>>
    /\ UNCHANGED formFrame

\* tick() of useTimerCountdown, run by setInterval
CountdownTick ==
    /\ form.expiresAt # 0
    /\ form' = [form EXCEPT !.countdown = Countdown(form.expiresAt, DateNow)]
    /\ UNCHANGED serverVars
    /\ UNCHANGED formFrame

\* validateOtp() with the fetched code typed into the input, while the form
\* does not show the code as expired: POST /validate
ValidateOtp ==
    LET r == validateHandler("POST", [wellFormed |-> TRUE, otp |-> form.otp], now)
    IN
    /\ form.otp # <<>>
    /\ ~isExpired
    /\ resp' = r
    /\ form' = [form EXCEPT !.result = IF r.valid THEN "verified" ELSE "rejected",
                            !.submittedAt = DateNow]
    /\ UNCHANGED <<startTime, now, issued>>
    /\ UNCHANGED formFrame

\* clearAll(), 1200 ms after a successful validation
ClearAll ==
    /\ form.result = "verified"
    /\ form' = FormEmpty
    /\ UNCHANGED serverVars
    /\ UNCHANGED formFrame

InitForm == Init

NextForm == Tick \/ FetchOtp \/ CountdownTick \/ ValidateOtp \/ ClearAll

SpecForm == InitForm /\ [][NextForm]_vars

(* ------------------------ the device's key buffer ---------------------- *)

\* uint8_t hmacKey[10]; TOTP totp(hmacKey, 10)
KeyLength == 10

\* values of base32Secret: the configured one (10 bytes), the Base32 of
\* "12345678901234567890" and of "abcdefghijklmnopqrst" (20 bytes each) and
\* of "This is a test" (14 bytes, padded)
ConfiguredSecrets ==
    { BASE32_SECRET,
      <<"G", "E", "Z", "D", "G", "N", "B", "V", "G", "Y", "3", "T", "Q", "O",
        "J", "Q", "G", "E", "Z", "D", "G", "N", "B", "V", "G", "Y", "3", "T",
        "Q", "O", "J", "Q">>,
      <<"M", "F", "R", "G", "G", "Z", "D", "F", "M", "Z", "T", "W", "Q", "2",
        "L", "K", "N", "N", "W", "G", "2", "3", "T", "P", "O", "B", "Y", "X",
        "E", "4", "3", "U">>,
      <<"K", "R", "U", "G", "S", "4", "Z", "A", "N", "F", "Z", "S", "A", "Y",
        "J", "A", "O", "R", "S", "X", "G", "5", "A", "=">> }

InitKey == InitDecode

\* one iteration of the decoders' loop over the characters of base32Secret:
\* enc is the part of the secret read so far, dec.sketch.result and
\* dec.part000.result are the bytes stored so far, at indices 0, 1, ...
\* (the server's decoder is not run here)
DecodeChar ==
    /\ \E secret \in ConfiguredSecrets :
           /\ Len(enc) < Len(secret)
           /\ SubSeq(secret, 1, Len(enc)) = enc
           /\ LET c == secret[Len(enc) + 1] IN
              /\ enc' = Append(enc, c)
              /\ dec' = [dec EXCEPT
                           !.sketch  = DeviceDecodeStep("sketch", dec.sketch, c),
                           !.part000 = DeviceDecodeStep("part000", dec.part000, c)]
    /\ UNCHANGED <<serverVars, drv, reqs, dev, form>>

NextKey == DecodeChar

SpecKey == InitKey /\ [][NextKey]_vars

(* ------------------------------ properties ----------------------------- *)

\* floor(T / 30)
TimeCounter(t) == t \div TIME_STEP

OnlyDigits(s) == \A i \in 1..Len(s) : s[i] \in DigitSet

\* resp answers a POST to /validate whose body parsed
Submitted == resp.handler = "validate" /\ resp.method = "POST" /\ resp.wellFormed

\* resp answers a POST to /validate that submitted the code of issued[k]
SubmittedIssued(k) ==
    /\ Submitted
    /\ k \in 1..Len(issued)
    /\ resp.otp = issued[k].otp

\* the counters within distance d of counter c that are not negative
Near(c, d) == {x \in (c - d)..(c + d) : x >= 0}

\* the code of counter c under the configured secret
CodeOf(c) == generate4DigitTOTP(DecodedSecret.bytes, c)

\* C1: with TimeStep = 30 and tolerance = 1, the code a Generate call returned
\* at time T is accepted by Validate at every time T' whose counter differs
\* from the counter of T by at most 1.
C1_RoundTrip ==
    \A k \in 1..Len(issued) :
        ( /\ SubmittedIssued(k)
          /\ TimeCounter(resp.at) - TimeCounter(issued[k].at) \in {-1, 0, 1} )
        => (resp.valid /\ resp.status = 200)

\* a code issued in one window has been accepted in the next one, and a code
\* has been accepted in the window before the one it was issued in
C1_Witness ==
    \E k \in 1..Len(issued) :
        /\ SubmittedIssued(k)
        /\ TimeCounter(resp.at) = TimeCounter(issued[k].at) + 1
        /\ resp.valid
        /\ resp.offset = -1

\* C2 as stated: with tolerance = 1, a code generated for counter C is
\* rejected whenever the validator's time maps to counter C+2 or C-2.
C2_Original ==
    \A k \in 1..Len(issued) :
        ( /\ SubmittedIssued(k)
          /\ TimeCounter(resp.at) - TimeCounter(issued[k].at) \in {-2, 2} )
        => ~resp.valid

\* C2 amended: with tolerance = 1, a code generated for counter C and
\* submitted when the validator's time maps to counter V = C+2 or C-2 is
\* rejected unless it is also the code of one of the counters V-1, V, V+1
\* (which are all different from C).
C2_RejectedUnlessCollision ==
    \A k \in 1..Len(issued) :
        ( /\ SubmittedIssued(k)
          /\ TimeCounter(resp.at) - TimeCounter(issued[k].at) \in {-2, 2} )
        => ( resp.valid <=>
               \E c \in Near(TimeCounter(resp.at), 1) :
                   /\ c # TimeCounter(issued[k].at)
                   /\ CodeOf(c) = issued[k].otp )

\* a code has been rejected two windows after the one it was issued in
C2_Witness ==
    \E k \in 1..Len(issued) :
        /\ SubmittedIssued(k)
        /\ TimeCounter(resp.at) = TimeCounter(issued[k].at) + 2
        /\ resp.status = 200
        /\ ~resp.valid
        /\ Len(resp.tried) = 3

\* C3: validate4DigitTOTP returns true only if the submitted string equals
\* the derived code of some counter c >= 0 with |c - floor(now/30)| <=
\* SKEW_TOLERANCE; counters below zero are skipped and never derived; if no
\* such counter matches the result is false.
C3_ValidOnlyOnMatch ==
    ( resp.handler = "validate" /\ resp.status = 200 /\ resp.method = "POST" )
    => LET V == TimeCounter(resp.at)
           matches == {c \in (V - SKEW_TOLERANCE)..(V + SKEW_TOLERANCE) :
                           c >= 0 /\ CodeOf(c) = resp.otp}
       IN  /\ resp.valid <=> (matches # {})
           /\ \A i \in 1..Len(resp.tried) :
                  /\ resp.tried[i] >= 0
                  /\ resp.tried[i] - V \in (-SKEW_TOLERANCE)..SKEW_TOLERANCE
           /\ resp.valid => resp.tried[Len(resp.tried)] \in matches

\* in window 0 the candidate -1 was skipped: only 0 and 1 were derived, and
\* nothing matched
C3_Witness ==
    /\ Submitted
    /\ resp.status = 200
    /\ TimeCounter(resp.at) = 0
    /\ resp.tried = <<0, 1>>
    /\ ~resp.valid

\* C4: any two Generate calls made at times in the same 30-second window
\* return the identical code, whatever was served in between.
C4_SameWindowSameCode ==
    ( Len(issued) = 2
      /\ TimeCounter(issued[1].at) = TimeCounter(issued[2].at) )
    => issued[1].otp = issued[2].otp

\* two Generate calls at different seconds of one window, and a Validate
\* request served after them
C4_Witness ==
    /\ Len(issued) = 2
    /\ TimeCounter(issued[1].at) = TimeCounter(issued[2].at)
    /\ issued[1].at # issued[2].at
    /\ issued[1].otp = issued[2].otp
    /\ resp.handler = "validate"

\* resp answers a GET to /get-otp
Generated == resp.handler = "get-otp" /\ resp.method = "GET" /\ resp.status = 200

\* C5 as stated: expiresAt = (floor(now/30) + 1) * 30 * 1000, the start of
\* the next counter window in Unix milliseconds.
C5_Original ==
    Generated => resp.expiresAt = (TimeCounter(resp.at) + 1) * 30 * 1000

\* C5 amended: expiresAt = (now + 30) * 1000, thirty seconds after the call;
\* it is the start of the next window only when now is a multiple of 30.
C5_ExpiresThirtySecondsLater ==
    Generated =>
        /\ resp.expiresAt = (resp.at + 30) * 1000
        /\ (resp.expiresAt = (TimeCounter(resp.at) + 1) * 30 * 1000)
               <=> (resp.at % 30 = 0)

\* a Generate call in the last second of a window
C5_Witness ==
    /\ Generated
    /\ resp.at % 30 = 29
    /\ resp.expiresAt = (resp.at + 30) * 1000

IsCode(s) == Len(s) = 4 /\ OnlyDigits(s)

\* C6: generate4DigitTOTP returns a string of exactly 4 characters, each a
\* decimal digit, zero-padded on the left, for every counter.
C6_FixedWidth ==
    /\ ( resp.handler \in {"get-otp", "health"} /\ resp.status = 200
          /\ resp.method = "GET" ) => IsCode(resp.code)
    /\ \A k \in 1..Len(issued) : IsCode(issued[k].otp)
    /\ \A c \in Near(TimeCounter(now), SKEW_TOLERANCE) : IsCode(CodeOf(c))

\* a returned code that needed the zero padding
C6_Witness ==
    /\ Generated
    /\ IsCode(resp.code)
    /\ resp.code[1] = "0"

\* C7: every submitted OTP string with a character that is not a decimal
\* digit is rejected with valid=false and status 400, with the non-numeric
\* message (the length message when its length is not 4, which is checked
\* first), and is never passed to validate4DigitTOTP.
C7_NonDigitRejected ==
    ( Submitted /\ ~OnlyDigits(resp.otp) )
    => /\ ~resp.valid
       /\ resp.status = 400
       /\ resp.message = IF Len(resp.otp) = 4 THEN "OTP must contain only digits"
                                              ELSE "OTP must be 4 digits"
       /\ \A i \in 1..Len(resp.steps) : resp.steps[i] # "validate4DigitTOTP"

CryptoSteps == {"decodeBase32", "validate4DigitTOTP", "generate4DigitTOTP"}

ShapeSteps == {"method", "jsonDecode", "len", "Atoi"}

\* resp answers a /validate request that failed the method check, the body
\* parse, the length check or the numeric check
FailedShapeCheck ==
    /\ resp.handler = "validate"
    /\ \/ resp.method # "POST"
       \/ ~resp.wellFormed
       \/ Len(resp.otp) # OTP_DIGITS
       \/ AtoiErr(resp.otp)

\* C8: in validateHandler no Base32 decoding and no code derivation is
\* executed for a request that fails the method check, the body parse, the
\* length check or the numeric check; in every request all four shape checks
\* come before any cryptographic step.
C8_ShapeBeforeCrypto ==
    /\ FailedShapeCheck =>
           \A i \in 1..Len(resp.steps) : resp.steps[i] \notin CryptoSteps
    /\ resp.handler = "validate" =>
           \A i \in 1..Len(resp.steps) :
               resp.steps[i] \in CryptoSteps =>
                   \A chk \in ShapeSteps :
                       \E j \in 1..(i - 1) : resp.steps[j] = chk

\* a request stopped at the numeric check, after all four shape checks and
\* before any decoding or derivation
C8_Witness ==
    /\ FailedShapeCheck
    /\ resp.steps = <<"method", "jsonDecode", "len", "Atoi">>
    /\ resp.status = 400

\* which of the four malformed cases a /validate request is, "" for none
ShapeCase ==
    IF resp.handler # "validate" \/ resp.method = "OPTIONS" THEN ""
    ELSE IF resp.method # "POST" THEN "method"
    ELSE IF ~resp.wellFormed THEN "body"
    ELSE IF Len(resp.otp) # OTP_DIGITS THEN "length"
    ELSE IF ~OnlyDigits(resp.otp) THEN "numeric"
    ELSE ""

ShapeMessage ==
    [method  |-> "Method not allowed. Use POST.",
     body    |-> "Invalid JSON format",
     length  |-> "OTP must be 4 digits",
     numeric |-> "OTP must contain only digits"]

\* C9: a wrong method, an unparseable body, a wrong-length OTP and a
\* non-numeric OTP each produce valid=false with a 4xx status and a message
\* of their own, pairwise different; no input to Validate produces a 5xx.
C9_DistinctClientErrors ==
    /\ \A a, b \in DOMAIN ShapeMessage : a # b => ShapeMessage[a] # ShapeMessage[b]
    /\ resp.handler = "validate" => resp.status < 500
    /\ ShapeCase # "" =>
           /\ ~resp.valid
           /\ resp.status \in 400..499
           /\ resp.message = ShapeMessage[ShapeCase]

\* resp answers a well-formed submission (4 decimal digits) that is the
\* code of no counter in the tolerance window
WellFormedNoMatch ==
    /\ Submitted
    /\ IsCode(resp.otp)
    /\ \A c \in Near(TimeCounter(resp.at), SKEW_TOLERANCE) : CodeOf(c) # resp.otp

\* C10: a well-formed submission that matches no counter in the tolerance
\* window is answered with a success status, valid=false and one fixed
\* message, whatever the submission and the current counter.
C10_GenericNoMatch ==
    WellFormedNoMatch =>
        /\ resp.status = 200
        /\ ~resp.valid
        /\ resp.message = "Invalid 4-digit OTP"

\* an issued code submitted after its windows have passed gets the same
\* answer as any other wrong code
C10_Witness ==
    /\ WellFormedNoMatch
    /\ \E k \in 1..Len(issued) : resp.otp = issued[k].otp
    /\ resp.status = 200
    /\ resp.message = "Invalid 4-digit OTP"

(* -------------------------- decoder properties ------------------------ *)

\* the characters the lenient decoder is meant to ignore: white space,
\* punctuation and the digits outside the alphabet
OutsideChars == WhiteSpace \cup {"0", "1", "8", "9", "-", "+", "="}

\* s without its characters of the set drop
RECURSIVE Without(_, _)
Without(s, drop) ==
    IF s = <<>> THEN <<>>
    ELSE IF Head(s) \in drop THEN Without(Tail(s), drop)
    ELSE <<Head(s)>> \o Without(Tail(s), drop)

\* C11: for every string s over the Base32 alphabet and every s' obtained
\* from s by inserting characters outside the alphabet (spaces, punctuation,
\* digits 0/1/8/9), decodeBase32(s') yields the bytes of decodeBase32(s) and
\* signals no error; an all-invalid or empty input yields no bytes.
C11_LenientDecoding ==
    /\ dec.server.bytes = decodeBase32(Without(enc, OutsideChars)).bytes
    /\ ~dec.server.err
    /\ (\A i \in 1..Len(enc) : enc[i] \in OutsideChars) => dec.server.bytes = <<>>

\* a string with a space and a "9" between characters of the alphabet that
\* decodes to at least two bytes
C11_Witness ==
    /\ \E i, j, k, l \in 1..Len(enc) :
           /\ i < j /\ j < k /\ k < l
           /\ enc[i] \notin OutsideChars /\ enc[j] = " "
           /\ enc[k] = "9" /\ enc[l] \notin OutsideChars
    /\ Len(dec.server.bytes) >= 2
    /\ dec.server.bytes = decodeBase32(Without(enc, OutsideChars)).bytes

\* C12: every component that decodes the secret is case-insensitive: the
\* server decoder and the two device decoders each produce the same bytes
\* for a string and for its upper-case form, so device and server hold the
\* same key for the same configured string.
C12_CaseInsensitive ==
    /\ dec.server.bytes = decodeBase32(ToUpper(enc)).bytes
    /\ dec.sketch.result = decodeBase32Secret(ToUpper(enc)).result
    /\ dec.part000.result = manualBase32Decode(ToUpper(enc)).result
    /\ dec.sketch.result = dec.server.bytes
    /\ dec.part000.result = dec.server.bytes

\* the 5-bit values of the characters of s that are in the alphabet
RECURSIVE ValidValues(_)
ValidValues(s) ==
    IF s = <<>> THEN <<>>
    ELSE IF \E i \in 1..32 : base32Alphabet[i] = Head(s)
         THEN <<(CHOOSE i \in 1..32 : base32Alphabet[i] = Head(s)) - 1>>
                  \o ValidValues(Tail(s))
         ELSE ValidValues(Tail(s))

\* bit j (0 = first) of the concatenation of the 5-bit values
BitOf(vals, j) == (vals[(j \div 5) + 1] \div Pow2(4 - (j % 5))) % 2

\* bits 8k .. 8k+7 of the concatenation, as a byte
ByteOf(vals, k) ==
      BitOf(vals, 8 * k) * 128 + BitOf(vals, 8 * k + 1) * 64
    + BitOf(vals, 8 * k + 2) * 32 + BitOf(vals, 8 * k + 3) * 16
    + BitOf(vals, 8 * k + 4) * 8 + BitOf(vals, 8 * k + 5) * 4
    + BitOf(vals, 8 * k + 6) * 2 + BitOf(vals, 8 * k + 7)

\* the bytes of the concatenation, leftover bits dropped
BytesOf(vals) == [k \in 1..((5 * Len(vals)) \div 8) |-> ByteOf(vals, k - 1)]

\* a decoder's final loop state st agrees with the concatenation of vals
AgreesWith(st, vals) ==
    /\ Len(st.result) = (5 * Len(vals)) \div 8
    /\ st.result = BytesOf(vals)
    /\ st.bitsLeft \in 0..7
    /\ st.bitsLeft = (5 * Len(vals)) % 8

\* C19: for an input with n characters of the alphabet, decodeBase32 and
\* manualBase32Decode (32-bit accumulator, shifted left by 5 per character,
\* never masked) emit exactly floor(5n/8) bytes, byte k being bits 8k..8k+7
\* of the concatenation of the n 5-bit values, also when the accumulator
\* overflows 32 bits; after each character 0..7 bits are retained and the
\* final leftover bits are discarded.
C19_DecodedBytes ==
    /\ AgreesWith(dec.state, ValidValues(ToUpper(TrimSpace(enc))))
    /\ dec.server.bytes = dec.state.result
    /\ AgreesWith(dec.part000, ValidValues(enc))

\* seven characters of the alphabet (35 bits, more than the accumulator
\* holds) with different values: four bytes out, three bits left over
C19_Witness ==
    /\ Len(ValidValues(ToUpper(enc))) = 7
    /\ \E i \in 1..Len(enc) : enc[i] = "b"
    /\ \E i \in 1..Len(enc) : enc[i] = "7"
    /\ Len(dec.server.bytes) = 4
    /\ dec.state.bitsLeft = 3
    /\ dec.state.buffer[1] >= 32768
    /\ Len(dec.part000.result) >= 1

(* ---------------------- order of the tried windows --------------------- *)

\* C18: validate4DigitTOTP tries the current window first (offset 0), then
\* outward, so that when the submitted code equals both the current window's
\* code and an adjacent window's code, the match is attributed to offset 0
\* and no time-skew diagnostic is logged.
C18_CurrentWindowFirst ==
    (/\ Submitted
     /\ resp.status = StatusOK
     /\ OnlyDigits(resp.otp)
     /\ resp.otp = CodeOf(TimeCounter(resp.at))) =>
        /\ resp.valid
        /\ resp.offset = 0
        /\ ~resp.skewLog

(* ------------------------- concurrent requests ------------------------- *)

\* C13: under any interleaving of concurrently served Generate, Validate and
\* Health requests, each request's response equals the response it would get
\* if served alone at the clock value it read; no handler writes state
\* another handler reads (every step of a handler changes its own locals
\* only), and the decoded secret is never modified after it is produced.
C13_ServedAsAlone ==
    [][ /\ \A i \in Requests :
              /\ reqs'[i].pc = "done" =>
                     reqs'[i].out = Wire(ServedAlone(reqs'[i], reqs'[i].t))
              /\ reqs[i].secret # NoSecret /\ reqs'[i].pc # "idle" =>
                     reqs'[i].secret = reqs[i].secret
              /\ reqs'[i].secret \in {NoSecret, DecodedSecret}
        /\ \A i, j \in Requests :
              i # j /\ reqs'[i] # reqs[i] =>
                  /\ reqs'[j] = reqs[j]
                  /\ serverVars' = serverVars ]_vars

\* two requests in flight that read different clock values: the first one
\* was answered from its own reading after the clock moved on and the other
\* request read the clock
C13_Witness ==
    /\ reqs["r1"].pc = "done"
    /\ reqs["r1"].handler = "get-otp"
    /\ reqs["r1"].out.expiresAt = ExpiresAtMs(reqs["r1"].t)
    /\ reqs["r1"].t < now
    /\ reqs["r2"].pc = "respond"
    /\ reqs["r2"].handler = "validate"
    /\ reqs["r2"].t > reqs["r1"].t

(* --------------------------- device properties ------------------------- *)

\* C15: after a code is generated at local time g, updateDisplay shows that
\* code only while millis() - g < 30000 and shows the dashes at every later
\* loop iteration until the next generation.
C15_DisplayTimeout ==
    [][ dev'.pc = "loop" /\ dev'.iter > 0 =>
          /\ dev'.display = ShowNumberDec(dev'.currentOTP) =>
                 U32Less(U32Sub(dev'.shownAt, dev'.otpGeneratedTime), 30000)
          /\ (dev.display = Dashes /\ dev.currentOTP # NoOTP /\ ~dev'.generated) =>
                 dev'.display = Dashes ]_vars

\* C16: when the RTC is detected, setup() finishes and the device reaches
\* the polling loop after a bounded number of WiFi and NTP attempts, whether
\* or not WiFi connects and whether or not the NTP server ever answers.
C16_SetupReachesLoop == (dev.pc = "wifi") ~> (dev.pc = "loop")

(* ------------------------ derivation properties ------------------------ *)

\* C14: for the same secret and the same Unix time t, the 4-character code
\* of the device (the library's 6-digit code, converted to an integer,
\* reduced mod 10000 and left-padded with zeros) equals the string the
\* server's generate4DigitTOTP returns for counter floor(t/30), for every
\* value of the underlying 31-bit truncated hash.
C14_DeviceEqualsServer ==
    drv.kind \in {"digest"} \cup Firmwares =>
        /\ drv.truncated \in 0..2147483647
        /\ drv.device = drv.code
        /\ Len(drv.device) = 4

\* a truncated hash whose last four digits start with a zero although its
\* six-digit code does not: the device pads what the server formats
C14_Witness ==
    /\ drv.kind = "digest"
    /\ drv.truncated % 10000 < 1000
    /\ drv.truncated % 1000000 >= 100000
    /\ drv.device = drv.code
    /\ drv.code[1] = "0"

\* C17: with the 20 ASCII bytes "12345678901234567890" as key,
\* generate4DigitTOTP returns "5224" for counter 0 and "7082" for counter 1,
\* the last four digits of the RFC 4226 vectors 755224 and 287082.
C17_KnownVectors ==
    drv.kind = "rfc" =>
        /\ drv.counter = 0 => drv.code = <<"5", "2", "2", "4">>
        /\ drv.counter = 1 => drv.code = <<"7", "0", "8", "2">>

\* the derivation for counter 1 of the RFC key, from its truncated hash
C17_Witness ==
    /\ drv.kind = "rfc"
    /\ drv.counter = 1
    /\ drv.truncated % 1000000 = 287082
    /\ drv.code = <<"7", "0", "8", "2">>

\* C20: in the dynamic truncation of generate4DigitTOTP, for every 20-byte
\* digest the offset (low 4 bits of the last byte) is in 0..15, the four
\* bytes read at offset..offset+3 lie inside the digest (index <= 18), and
\* the masked big-endian value is in 0..2^31-1.
C20_TruncationInRange ==
    drv.kind # "none" =>
        /\ Len(drv.hash) = 20
        /\ drv.offset \in 0..15
        /\ drv.offset = drv.hash[20] % 16
        /\ drv.reads = drv.offset..(drv.offset + 3)
        /\ \A i \in drv.reads : i \in 0..18
        /\ drv.truncated \in 0..2147483647

\* a digest whose offset is 15 (bytes 15..18 are read) and whose truncated
\* value is the largest one, 2^31 - 1
C20_Witness ==
    /\ drv.kind = "digest"
    /\ drv.offset = 15
    /\ drv.reads = 15..18
    /\ drv.truncated = 2147483647

\* C21: for every truncated value v in 0..2^31-1 the two-step reduction of
\* generate4DigitTOTP, (v mod 1000000) mod 10000, equals v mod 10000, so the
\* 4-digit code is the last four digits of the 6-digit code.
C21_TwoStepReduction ==
    drv.kind # "none" /\ drv.truncated >= 0 =>
        /\ drv.code = Sprintf04d(drv.truncated % 10000)
        /\ drv.code = SubSeq(Sprintf06d(drv.truncated % 1000000), 3, 6)

\* a truncated value above 10^6 whose six-digit code has digits the
\* four-digit code drops
C21_Witness ==
    /\ drv.kind = "digest"
    /\ drv.truncated > 1000000
    /\ (drv.truncated % 1000000) \div 10000 > 0
    /\ drv.code = Sprintf04d(drv.truncated % 10000)

\* C22: every accepted button press leads to the DISPLAYING state: after
\* handleButtonPress generated a code, the next updateDisplay call shows
\* that code (in part_000 possibly in the dark half of its blinking), not
\* the dashes, for every possible generated code value.
C22_PressDisplays ==
    dev.pc = "loop" /\ dev.generated =>
        /\ dev.display # Dashes
        /\ dev.display \in {ShowNumberDec(dev.currentOTP), Blank}

\* C23: a code is generated only on a button-press edge: one physical press
\* (the input going LOW and staying LOW until released) triggers generateOTP
\* at most once, however long the button is held, and two generations are
\* always more than DEBOUNCE_DELAY = 500 ms apart.
C23_OncePerPress ==
    [][ dev'.pc = "loop" =>
          /\ dev'.heldGenerations <= 1
          /\ dev'.generated /\ dev.everGenerated =>
                 U32Greater(U32Sub(dev'.otpGeneratedTime, dev.otpGeneratedTime),
                            DEBOUNCE_DELAY) ]_vars

(* ------------------------- the announced expiry ------------------------ *)

\* resp answers the submission of the code of issued[k] at a time from its
\* issuance up to the expiry announced with it
BeforeExpiry(k) ==
    /\ SubmittedIssued(k)
    /\ issued[k].at <= resp.at
    /\ resp.at * 1000 <= issued[k].expiresAt

\* C24: a code returned by Generate at time T is accepted by Validate at
\* every time T' with T <= T' and T' * 1000 <= the returned expiresAt: the
\* server never rejects a code before the expiry it announced for it.
C24_AcceptedUntilExpiry ==
    \A k \in 1..Len(issued) :
        BeforeExpiry(k) => resp.valid /\ resp.message = MsgValid

\* a code issued in the last second of a window, accepted at the very
\* millisecond of its expiry, in the last second of the next window
C24_Witness ==
    \E k \in 1..Len(issued) :
        /\ BeforeExpiry(k)
        /\ issued[k].at % TIME_STEP = 29
        /\ resp.at * 1000 = issued[k].expiresAt
        /\ resp.valid

(* ------------------------- the form's statement ------------------------ *)

\* C25: the web form's statement that a fetched code is valid for
\* OTP_TTL = 60 seconds holds against the server: at every time within 60
\* seconds after the form received a code from /get-otp (while the form does
\* not show it as expired), submitting that code to /validate is accepted.
C25_ValidForTtl ==
    ( /\ form.result # "none"
      /\ form.submittedAt < form.expiresAt ) =>
        form.result = "verified"

(* ----------------------------- the key buffer -------------------------- *)

\* C26: the device decoder never writes outside the 10-byte key buffer
\* hmacKey: for every encoded secret string, every index written by
\* decodeBase32Secret / manualBase32Decode is in 0..9, and the number of
\* decoded bytes equals the key length 10 passed to the TOTP generator.
C26_KeyBufferBounds ==
    \A fw \in Firmwares :
        /\ \A index \in 0..(Len(dec[fw].result) - 1) : index \in 0..(KeyLength - 1)
        /\ enc \in ConfiguredSecrets => Len(dec[fw].result) = KeyLength

====
